---- MODULE Spec2Model ----
(***************************************************************************)
(* A model of nano_banana_server.py: the NanoBananaMCPServer class (its    *)
(* constructor, the lazily created genai Client, generate_image and        *)
(* generate_image_from_base64) and the tool function                       *)
(* generate_image_with_nano_banana.                                        *)
(*                                                                         *)
(* Python values are written as follows.  Optional[X] is a sequence of     *)
(* length at most one: None is <<>> and a present value v is <<v>>.  bytes *)
(* is a sequence of integers 0..255.  Text that the code only passes on    *)
(* (prompts, media types, keys, messages) is a TLA+ string; base64 text,   *)
(* which the code decodes character by character, is a sequence of         *)
(* one-character strings.  A Client object is named by the server that    *)
(* constructed it and its ordinal among that server's Clients (1, 2, ..);  *)
(* the attribute value None of self.client is 0.                           *)
(***************************************************************************)
EXTENDS Integers, Sequences, FiniteSets, TLC

VARIABLES env, servers, tasks

vars == <<env, servers, tasks>>

(***************************************************************************)
(* Bounds of the model.                                                    *)
(***************************************************************************)
\* Concurrent invocations (threads or tasks) of the concurrent specification.
MaxTasks == 2
\* NanoBananaMCPServer objects alive in one run of the process.
MaxServers == 2
\* Parts in the first candidate of a remote response.
MaxParts == 2
\* Characters of a base64 argument.
MaxB64Len == 4

Tasks == 1..MaxTasks

(***************************************************************************)
(* Optional values and Python truthiness.                                  *)
(***************************************************************************)
None == <<>>

Some(v) == <<v>>

IsNone(o) == o = <<>>

Get(o) == o[1]

\* bool(o) for an Optional[str]: None and "" are falsy.
TruthyStr(o) == o # <<>> /\ o[1] # ""

\* bool(o) for an Optional[bytes] or Optional[base64 text]: None and the
\* empty sequence are falsy.
TruthySeq(o) == o # <<>> /\ o[1] # <<>>

\* a or b, for Optional[str].
OrStr(a, b) == IF TruthyStr(a) THEN a ELSE b

(***************************************************************************)
(* Program constants.                                                      *)
(***************************************************************************)
ModelName == "gemini-2.5-flash-image-preview"

DefaultModelUsed == "gemini-2.5-flash-image-preview"

DefaultMimeType == "image/png"

NoImageMessage == "No image data found in model response"

FailedPrefix == "Image generation failed: "

DecodePrefix == "Failed to decode base64 input image: "

(***************************************************************************)
(* base64, as the standard library computes it.                            *)
(***************************************************************************)
B64Alphabet ==
    << "A","B","C","D","E","F","G","H","I","J","K","L","M","N","O","P",
       "Q","R","S","T","U","V","W","X","Y","Z","a","b","c","d","e","f",
       "g","h","i","j","k","l","m","n","o","p","q","r","s","t","u","v",
       "w","x","y","z","0","1","2","3","4","5","6","7","8","9","+","/" >>

\* The six-bit value of a character, 64 for a character outside the alphabet.
B64Value(ch) ==
    IF \E i \in 1..64 : B64Alphabet[i] = ch
      THEN (CHOOSE i \in 1..64 : B64Alphabet[i] = ch) - 1
      ELSE 64

\* One step of binascii.a2b_base64 (strict_mode off) on character ch.  The
\* state st is [quad, left, pads, out, done]: the position in the current
\* group of four, the bits left over, the pads seen in a row, the bytes
\* written, and whether a complete pad sequence ended the scan.
B64Step(st, ch) ==
    IF st.done THEN st
    ELSE IF ch = "=" THEN
      IF st.quad >= 2 /\ st.quad + st.pads + 1 >= 4
        THEN [st EXCEPT !.pads = st.pads + 1, !.done = TRUE]
        ELSE IF st.quad >= 2 THEN [st EXCEPT !.pads = st.pads + 1] ELSE st
    ELSE IF B64Value(ch) = 64 THEN st
    ELSE LET v == B64Value(ch) IN
      CASE st.quad = 0 -> [st EXCEPT !.quad = 1, !.left = v, !.pads = 0]
        [] st.quad = 1 -> [st EXCEPT !.quad = 2, !.left = v % 16, !.pads = 0,
                              !.out = Append(st.out, st.left * 4 + v \div 16)]
        [] st.quad = 2 -> [st EXCEPT !.quad = 3, !.left = v % 4, !.pads = 0,
                              !.out = Append(st.out, st.left * 16 + v \div 4)]
        [] OTHER       -> [st EXCEPT !.quad = 0, !.left = 0, !.pads = 0,
                              !.out = Append(st.out, st.left * 64 + v)]

RECURSIVE B64Scan(_, _)
B64Scan(st, s) ==
    IF s = <<>> THEN st ELSE B64Scan(B64Step(st, Head(s)), Tail(s))

\* base64.b64decode(s) with its default validate=False: [ok, data, error].
\* Characters outside the alphabet are skipped; the scan stops at a complete
\* pad sequence; a group left open at the end is an error.
B64Decode(s) ==
    LET st == B64Scan([quad |-> 0, left |-> 0, pads |-> 0, out |-> <<>>,
                       done |-> FALSE], s)
        n  == Cardinality({i \in 1..Len(s) : B64Value(s[i]) < 64})
    IN  IF st.done \/ st.quad = 0
          THEN [ok |-> TRUE, data |-> st.out, error |-> ""]
          ELSE IF st.quad = 1
            THEN [ok |-> FALSE, data |-> <<>>,
                  error |-> "Invalid base64-encoded string: number of data characters ("
                            \o ToString(n)
                            \o ") cannot be 1 more than a multiple of 4"]
            ELSE [ok |-> FALSE, data |-> <<>>, error |-> "Incorrect padding"]

RECURSIVE B64Encode(_)
\* base64.b64encode(b): three bytes to four characters, the tail padded.
B64Encode(b) ==
    CASE Len(b) = 0 -> <<>>
      [] Len(b) = 1 -> << B64Alphabet[b[1] \div 4 + 1],
                          B64Alphabet[(b[1] % 4) * 16 + 1], "=", "=" >>
      [] Len(b) = 2 -> << B64Alphabet[b[1] \div 4 + 1],
                          B64Alphabet[(b[1] % 4) * 16 + b[2] \div 16 + 1],
                          B64Alphabet[(b[2] % 16) * 4 + 1], "=" >>
      [] OTHER      -> << B64Alphabet[b[1] \div 4 + 1],
                          B64Alphabet[(b[1] % 4) * 16 + b[2] \div 16 + 1],
                          B64Alphabet[(b[2] % 16) * 4 + b[3] \div 64 + 1],
                          B64Alphabet[(b[3] % 64) + 1] >>
                       \o B64Encode(SubSeq(b, 4, Len(b)))

(***************************************************************************)
(* The inputs the environment can supply.                                  *)
(***************************************************************************)
\* The api_key argument of the constructor.
KeyArgs == {None, Some(""), Some("key-arg")}

\* The environment variable GOOGLE_AI_STUDIO_API_KEY: unset, empty or set.
EnvValues == {None, Some(""), Some("key-env")}

Prompts == {"a ceramic bowl"}

MimeArgs == {None, Some(""), Some("image/jpeg")}

\* input_image_data of a request built by a direct caller of generate_image.
ImageArgs == {None, Some(<<>>), Some(<<65>>)}

Requests ==
    [prompt : Prompts, input_image_data : ImageArgs,
     input_image_mime_type : MimeArgs]

\* A request with a prompt alone.
PlainRequest ==
    [prompt |-> "a ceramic bowl", input_image_data |-> None,
     input_image_mime_type |-> None]

\* Characters of a base64 argument: one of the alphabet, one outside it, the pad.
B64Chars == {"Q", "!", "="}

SeqsUpTo(S, n) == UNION {[1..k -> S] : k \in 0..n}

\* input_image_b64: absent, or any text over B64Chars of at most MaxB64Len
\* characters.
B64Args == {None} \cup {Some(s) : s \in SeqsUpTo(B64Chars, MaxB64Len)}

\* A few base64 arguments: absent, empty, one that decodes, one that does not,
\* and two with a character outside the alphabet.
B64Samples ==
    {None, Some(<<>>), Some(<<"Q","Q","=","=">>), Some(<<"Q">>),
     Some(<<"!">>), Some(<<"Q","!","Q","=","=">>)}

\* Bytes of a generated image.
ImageA == <<137, 80>>

ImageB == <<255>>

ImageBytes == {ImageA, ImageB}

\* The parts a candidate's content can hold: a part without the inline_data
\* attribute, one whose inline_data is None, one whose blob has no data
\* attribute, blobs with data None and data b"", and two blobs with an image.
PartKinds ==
    { [text |-> "here is your image"],
      [inline_data |-> None],
      [inline_data |-> Some([mime_type |-> "image/png"])],
      [inline_data |-> Some([data |-> None])],
      [inline_data |-> Some([data |-> Some(<<>>)])] }
    \cup {[inline_data |-> Some([data |-> Some(d)])] : d \in ImageBytes}

Candidates ==
    {[content |-> None], [content |-> Some([parts |-> None])]}
    \cup {[content |-> Some([parts |-> Some(ps)])] : ps \in SeqsUpTo(PartKinds, MaxParts)}

ImageCandidate ==
    [content |-> Some([parts |-> Some(<<[inline_data |-> Some([data |-> Some(ImageB)])]>>)])]

\* The responses generate_content can return: candidates None, no candidate,
\* one candidate of any shape, or two candidates.
Responses ==
    {[candidates |-> None], [candidates |-> Some(<<>>)]}
    \cup {[candidates |-> Some(<<c>>)] : c \in Candidates}
    \cup {[candidates |-> Some(<<c, ImageCandidate>>)] :
            c \in {[content |-> None], [content |-> Some([parts |-> Some(<<>>)])]}}

ImageResponse == [candidates |-> Some(<<ImageCandidate>>)]

\* A few responses: no candidate, a candidate without an image, one with.
ResponseSamples ==
    {[candidates |-> Some(<<>>)],
     [candidates |-> Some(<<[content |-> Some([parts |-> Some(<<[inline_data |-> None]>>)])]>>)],
     ImageResponse}

\* What Client(...) and generate_content(...) can raise: [type, msg], msg
\* being str(e).
ConnectError == [type |-> "ConnectError", msg |-> ""]

RemoteErrors == {[type |-> "ClientError", msg |-> "401 UNAUTHENTICATED"], ConnectError}

(***************************************************************************)
(* NanoBananaMCPServer.__init__                                            *)
(***************************************************************************)
\* As ServerInit, with "if self.api_key is None" as the test.
ServerInitNoneOnly(api_key, e) ==
    LET key == OrStr(api_key, e)
    IN  IF key = None
          THEN [raised |-> TRUE, server |-> None]
          ELSE [raised |-> FALSE,
                server |-> Some([api_key |-> Get(key), model_name |-> ModelName,
                                 client |-> 0, constructions |-> 0])]

\* The constructor on argument api_key with the environment variable e:
\* [raised, server].  self.client starts as None (0).  constructions is
\* history: the Client objects this server has constructed.
ServerInit(api_key, e) ==
    LET key == OrStr(api_key, e)
    IN  IF ~TruthyStr(key)
          THEN [raised |-> TRUE, server |-> None]
          ELSE [raised |-> FALSE,
                server |-> Some([api_key |-> Get(key), model_name |-> ModelName,
                                 client |-> 0, constructions |-> 0])]

(***************************************************************************)
(* The pure parts of generate_image and generate_image_from_base64.        *)
(***************************************************************************)
\* As AssembleContents, with the default media type used only when
\* input_image_mime_type is None.
AssembleContentsDefaultOnNone(request) ==
    <<request.prompt>>
    \o (IF TruthySeq(request.input_image_data)
          THEN << [data |-> Get(request.input_image_data),
                   mime_type |-> IF request.input_image_mime_type = None
                                   THEN DefaultMimeType
                                   ELSE Get(request.input_image_mime_type)] >>
          ELSE <<>>)

\* contents: the prompt, then the image part when input_image_data is truthy.
AssembleContents(request) ==
    <<request.prompt>>
    \o (IF TruthySeq(request.input_image_data)
          THEN << [data |-> Get(request.input_image_data),
                   mime_type |-> Get(OrStr(request.input_image_mime_type,
                                           Some(DefaultMimeType)))] >>
          ELSE <<>>)

\* hasattr(part, 'inline_data') and part.inline_data is not None and
\* hasattr(part.inline_data, 'data') and part.inline_data.data
PartHasImage(part) ==
    /\ "inline_data" \in DOMAIN part
    /\ part.inline_data # None
    /\ "data" \in DOMAIN Get(part.inline_data)
    /\ TruthySeq(Get(part.inline_data).data)

\* The scan of response.candidates[0].content.parts: [raised, exc, data],
\* data being generated_image_data after the loop.
ExtractImage(response) ==
    LET ok(d) == [raised |-> FALSE, exc |-> [type |-> "", msg |-> ""], data |-> d]
        err(ty, m) == [raised |-> TRUE, exc |-> [type |-> ty, msg |-> m], data |-> None]
    IN  IF response.candidates = None
          THEN err("TypeError", "object of type 'NoneType' has no len()")
        ELSE IF Get(response.candidates) = <<>>
          THEN err("IndexError", "list index out of range")
        ELSE LET content == Get(response.candidates)[1].content IN
          IF content = None
            THEN err("AttributeError", "'NoneType' object has no attribute 'parts'")
          ELSE IF Get(content).parts = None
            THEN err("TypeError", "'NoneType' object is not iterable")
          ELSE LET parts == Get(Get(content).parts)
                   hits == {i \in 1..Len(parts) : PartHasImage(parts[i])}
               IN  IF hits = {} THEN ok(None)
                   ELSE LET first == CHOOSE i \in hits : \A j \in hits : i <= j
                        IN  ok(Get(parts[first].inline_data).data)

\* The two return statements that end the try block.
BuildResponse(data) ==
    IF TruthySeq(data)
      THEN [success |-> TRUE, generated_image_data |-> data,
            error_message |-> None, model_used |-> ModelName]
      ELSE [success |-> FALSE, generated_image_data |-> None,
            error_message |-> Some(NoImageMessage), model_used |-> DefaultModelUsed]

\* As HandleException, with "except errors.APIError": only what the remote
\* side raises is caught.
HandleApiErrorsOnly(exc) ==
    [caught |-> exc.type \in {"ClientError", "ConnectError"},
     response |-> [success |-> FALSE, generated_image_data |-> None,
                   error_message |-> Some(FailedPrefix \o exc.msg),
                   model_used |-> DefaultModelUsed]]

\* As HandleException, with error_message=str(e).
HandleBareMessage(exc) ==
    [caught |-> TRUE,
     response |-> [success |-> FALSE, generated_image_data |-> None,
                   error_message |-> Some(exc.msg),
                   model_used |-> DefaultModelUsed]]

\* except Exception as e: [caught, response].  Every exception modelled here
\* is a subclass of Exception.
HandleException(exc) ==
    [caught |-> TRUE,
     response |-> [success |-> FALSE, generated_image_data |-> None,
                   error_message |-> Some(FailedPrefix \o exc.msg),
                   model_used |-> DefaultModelUsed]]

\* The decoding of input_image_b64: [failed, data, result].
DecodeInput(b64) ==
    IF TruthySeq(b64)
      THEN LET d == B64Decode(Get(b64))
           IN  IF d.ok
                 THEN [failed |-> FALSE, data |-> Some(d.data), result |-> None]
                 ELSE [failed |-> TRUE, data |-> None,
                       \* the dict of the early return; its error text is
                       \* written Some(text), as ToDict writes error
                       result |-> Some([success |-> FALSE,
                                        error |-> Some(DecodePrefix \o d.error)])]
      ELSE [failed |-> FALSE, data |-> None, result |-> None]

\* The dict built from the ImageGenerationResponse.
ToDict(response) ==
    IF response.success /\ TruthySeq(response.generated_image_data)
      THEN [success |-> response.success, model_used |-> response.model_used,
            generated_image_b64 |-> B64Encode(Get(response.generated_image_data)),
            generated_image_size |-> Len(Get(response.generated_image_data))]
      ELSE [success |-> response.success, model_used |-> response.model_used,
            error |-> response.error_message]

(***************************************************************************)
(* What a response looks like to a reader of its first candidate, stated   *)
(* without the code's control flow: kind names the first thing missing on  *)
(* the way to an image ("candidates_none", "no_candidates", "no_content",  *)
(* "parts_none", "no_image_part") or is "image"; image is then the data of *)
(* the first part that carries non-empty inline data.                      *)
(***************************************************************************)
CarriesImage(part) ==
    \E d \in ImageBytes : part = [inline_data |-> Some([data |-> Some(d)])]

ResponseShape(r) ==
    LET none(k) == [kind |-> k, image |-> None]
    IN  CASE r.candidates = None -> none("candidates_none")
          [] r.candidates = Some(<<>>) -> none("no_candidates")
          [] OTHER ->
               LET c == Get(r.candidates)[1]
               IN  CASE c.content = None -> none("no_content")
                     [] c.content = Some([parts |-> None]) -> none("parts_none")
                     [] OTHER ->
                          LET ps == Get(Get(c.content).parts)
                          IN  IF \A i \in 1..Len(ps) : ~CarriesImage(ps[i])
                                THEN none("no_image_part")
                                ELSE LET i == CHOOSE i \in 1..Len(ps) :
                                                /\ CarriesImage(ps[i])
                                                /\ \A j \in 1..(i - 1) : ~CarriesImage(ps[j])
                                     IN  [kind |-> "image",
                                          image |-> Get(ps[i].inline_data).data]

(***************************************************************************)
(* Invocations.  tasks[t] is the call task t is running, if any:           *)
(*   pc          where it is: "idle", "get_client" (about to test          *)
(*               self.client), "construct" (about to call Client),         *)
(*               "return_client" (about to return self.client), "remote"   *)
(*               (about to call generate_content), "done" (returned to its *)
(*               caller) or "raised" (an exception reached its caller);    *)
(*   entry       the function the caller called;                           *)
(*   server      the index in servers of self, 0 when there is none;       *)
(*   key         the api_key argument of a constructor call;               *)
(*   args        the arguments of generate_image_from_base64;              *)
(*   request     the ImageGenerationRequest;                               *)
(*   client      the local variable client; contents, the local contents;  *)
(*   result      the ImageGenerationResponse generate_image returned;      *)
(*   dict        the dict generate_image_from_base64 returned;             *)
(*   exc         the exception that reached the caller, raisedIn the       *)
(*               function it left last;                                    *)
(* and, as history of the call: remoteCalls, the generate_content calls it *)
(* issued; constructed, the Client objects it constructed; returns, the    *)
(* times generate_image returned; outcome, what the remote side did        *)
(* ("client_raised", "remote_raised", "response"); shape, what the         *)
(* response generate_content returned looked like (ResponseShape).         *)
(***************************************************************************)
IdleTask ==
    [pc |-> "idle", entry |-> "", server |-> 0, key |-> None, args |-> None,
     request |-> None, client |-> 0, contents |-> <<>>, result |-> None,
     dict |-> None, exc |-> None, raisedIn |-> "", remoteCalls |-> 0,
     constructed |-> 0, returns |-> 0, outcome |-> "", shape |-> None]

KeyError ==
    [type |-> "ValueError",
     msg |-> "Google AI Studio API key is required. Set GOOGLE_AI_STUDIO_API_KEY environment variable."]

Init ==
    /\ env \in EnvValues
    /\ servers = <<>>
    /\ tasks = [t \in Tasks |-> IdleTask]

\* server = NanoBananaMCPServer(api_key) by a caller that keeps the object,
\* or gets the ValueError.
CallInit(t, api_key) ==
    LET r == ServerInit(api_key, env)
    IN  /\ tasks[t].pc = "idle"
        /\ r.raised \/ Len(servers) < MaxServers
        /\ servers' = IF r.raised THEN servers ELSE Append(servers, Get(r.server))
        /\ tasks' = [tasks EXCEPT ![t] =
                       IF r.raised
                         THEN [IdleTask EXCEPT !.pc = "raised", !.entry = "__init__",
                                               !.key = api_key, !.raisedIn = "__init__",
                                               !.exc = Some(KeyError)]
                         ELSE [IdleTask EXCEPT !.pc = "done", !.entry = "__init__",
                                               !.key = api_key,
                                               !.server = Len(servers) + 1]]
        /\ UNCHANGED env

\* await server.generate_image(request), up to the call of _get_client.
CallGenerateImage(t, s, request) ==
    /\ tasks[t].pc = "idle"
    /\ s \in 1..Len(servers)
    /\ tasks' = [tasks EXCEPT ![t] =
                   [IdleTask EXCEPT !.pc = "get_client", !.entry = "generate_image",
                                    !.server = s, !.request = Some(request)]]
    /\ UNCHANGED <<env, servers>>

\* generate_image_from_base64 from its first line to the call of _get_client
\* inside generate_image, or to its early return: the call as a task record.
EnterFromBase64(entry, s, args) ==
    LET d == DecodeInput(args.input_image_b64)
    IN  IF d.failed
          THEN [IdleTask EXCEPT !.pc = "done", !.entry = entry, !.server = s,
                                !.args = Some(args), !.dict = d.result]
          ELSE [IdleTask EXCEPT !.pc = "get_client", !.entry = entry, !.server = s,
                                !.args = Some(args),
                                !.request = Some([prompt |-> args.prompt,
                                                  input_image_data |-> d.data,
                                                  input_image_mime_type |->
                                                      args.input_image_mime_type])]

\* await server.generate_image_from_base64(prompt, input_image_b64, mime).
CallFromBase64(t, s, args) ==
    /\ tasks[t].pc = "idle"
    /\ s \in 1..Len(servers)
    /\ tasks' = [tasks EXCEPT ![t] =
                   EnterFromBase64("generate_image_from_base64", s, args)]
    /\ UNCHANGED <<env, servers>>

\* await generate_image_with_nano_banana(prompt, input_image_b64, mime): a
\* new server from the environment, whose ValueError reaches the caller, then
\* generate_image_from_base64 on it.
CallTool(t, args) ==
    LET r == ServerInit(None, env)
    IN  /\ tasks[t].pc = "idle"
        /\ r.raised \/ Len(servers) < MaxServers
        /\ servers' = IF r.raised THEN servers ELSE Append(servers, Get(r.server))
        /\ tasks' = [tasks EXCEPT ![t] =
                       IF r.raised
                         THEN [IdleTask EXCEPT
                                 !.pc = "raised", !.entry = "generate_image_with_nano_banana",
                                 !.args = Some(args), !.raisedIn = "__init__",
                                 !.exc = Some(KeyError)]
                         ELSE EnterFromBase64("generate_image_with_nano_banana",
                                              Len(servers) + 1, args)]
        /\ UNCHANGED env

\* The end of generate_image with response resp, and the rest of
\* generate_image_from_base64 when that is the caller: the task record.
Returned(tk, resp) ==
    [tk EXCEPT !.pc = "done", !.result = Some(resp), !.returns = tk.returns + 1,
               !.dict = IF tk.entry = "generate_image" THEN None
                        ELSE Some(ToDict(resp))]

\* An exception raised inside the try block of generate_image: handled, or
\* on its way to the caller.
Thrown(tk, e) ==
    LET h == HandleException(e)
    IN  IF h.caught THEN Returned(tk, h.response)
        ELSE [tk EXCEPT !.pc = "raised", !.exc = Some(e),
                        !.raisedIn = "generate_image"]

\* As GetClientCheck, without the test: a Client for every call.
GetClientAlwaysConstruct(t) ==
    /\ tasks[t].pc = "get_client"
    /\ tasks' = [tasks EXCEPT ![t].pc = "construct"]
    /\ UNCHANGED <<env, servers>>

\* _get_client: if self.client is None
GetClientCheck(t) ==
    /\ tasks[t].pc = "get_client"
    /\ tasks' = [tasks EXCEPT ![t].pc =
                   IF servers[tasks[t].server].client = 0
                     THEN "construct" ELSE "return_client"]
    /\ UNCHANGED <<env, servers>>

\* As GetClientConstruct, with the new Client kept in a local variable and
\* self.client left as it was.
GetClientConstructUncached(t, E) ==
    LET tk == tasks[t]
        s  == tk.server
    IN  /\ tk.pc = "construct"
        /\ \/ /\ servers' = [servers EXCEPT
                               ![s].constructions = servers[s].constructions + 1]
              /\ tasks' = [tasks EXCEPT ![t].pc = "return_client",
                                        ![t].constructed = tk.constructed + 1]
           \/ /\ \E e \in E :
                   tasks' = [tasks EXCEPT ![t] =
                               Thrown([tk EXCEPT !.outcome = "client_raised"], e)]
              /\ UNCHANGED servers
        /\ UNCHANGED env

\* _get_client: self.client = Client(api_key=self.api_key), which may raise
\* one of the errors E.
GetClientConstruct(t, E) ==
    LET tk == tasks[t]
        s  == tk.server
    IN  /\ tk.pc = "construct"
        /\ \/ /\ servers' = [servers EXCEPT
                               ![s].client = servers[s].constructions + 1,
                               ![s].constructions = servers[s].constructions + 1]
              /\ tasks' = [tasks EXCEPT ![t].pc = "return_client",
                                        ![t].constructed = tk.constructed + 1]
           \/ /\ \E e \in E :
                   tasks' = [tasks EXCEPT ![t] =
                               Thrown([tk EXCEPT !.outcome = "client_raised"], e)]
              /\ UNCHANGED servers
        /\ UNCHANGED env

\* _get_client: return self.client; then generate_image up to the call of
\* generate_content.
GetClientReturn(t) ==
    /\ tasks[t].pc = "return_client"
    /\ tasks' = [tasks EXCEPT
                   ![t].pc = "remote",
                   ![t].client = servers[tasks[t].server].client,
                   ![t].contents = AssembleContents(Get(tasks[t].request))]
    /\ UNCHANGED <<env, servers>>

\* As RemoteCall, with one more attempt after a call that raised.
RemoteCallRetry(t, R, E) ==
    LET tk == tasks[t]
    IN  /\ tk.pc = "remote"
        /\ tk.client # 0
        /\ \/ \E e \in E :
                tasks' = [tasks EXCEPT ![t] =
                            IF tk.remoteCalls = 0
                              THEN [tk EXCEPT !.remoteCalls = 1]
                              ELSE Thrown([tk EXCEPT !.remoteCalls = tk.remoteCalls + 1,
                                                     !.outcome = "remote_raised"], e)]
           \/ \E r \in R :
                LET x  == ExtractImage(r)
                    tr == [tk EXCEPT !.remoteCalls = tk.remoteCalls + 1,
                                     !.outcome = "response",
                                     !.shape = Some(ResponseShape(r))]
                IN  tasks' = [tasks EXCEPT ![t] =
                                IF x.raised THEN Thrown(tr, x.exc)
                                ELSE Returned(tr, BuildResponse(x.data))]
        /\ UNCHANGED <<env, servers>>

\* client.models.generate_content(model, contents), which raises one of the
\* errors E or returns one of the responses R, and the code after it up to
\* the return.
RemoteCall(t, R, E) ==
    LET tk == tasks[t]
    IN  /\ tk.pc = "remote"
        /\ IF tk.client = 0
             THEN tasks' = [tasks EXCEPT ![t] =
                              Thrown(tk, [type |-> "AttributeError",
                                          msg |-> "'NoneType' object has no attribute 'models'"])]
             ELSE \/ \E e \in E :
                       tasks' = [tasks EXCEPT ![t] =
                                   Thrown([tk EXCEPT !.remoteCalls = tk.remoteCalls + 1,
                                                     !.outcome = "remote_raised"], e)]
                  \/ \E r \in R :
                       LET x  == ExtractImage(r)
                           tr == [tk EXCEPT !.remoteCalls = tk.remoteCalls + 1,
                                            !.outcome = "response",
                                            !.shape = Some(ResponseShape(r))]
                       IN  tasks' = [tasks EXCEPT ![t] =
                                       IF x.raised THEN Thrown(tr, x.exc)
                                       ELSE Returned(tr, BuildResponse(x.data))]
        /\ UNCHANGED <<env, servers>>

\* The caller takes the result (or the exception); the task is free again.
Finish(t) ==
    /\ tasks[t].pc \in {"done", "raised"}
    /\ tasks' = [tasks EXCEPT ![t] = IdleTask]
    /\ UNCHANGED <<env, servers>>

ArgsOver(B, M) ==
    [prompt : Prompts, input_image_b64 : B, input_image_mime_type : M]

\* One call at a time, on any server or through the tool function, with
\* every response shape.
Next ==
    \/ \E k \in KeyArgs : CallInit(1, k)
    \/ \E s \in 1..MaxServers, q \in Requests : CallGenerateImage(1, s, q)
    \/ \E s \in 1..MaxServers, a \in ArgsOver(B64Samples, MimeArgs) : CallFromBase64(1, s, a)
    \/ \E a \in ArgsOver(B64Samples, MimeArgs) : CallTool(1, a)
    \/ GetClientCheck(1)
    \/ GetClientConstruct(1, RemoteErrors)
    \/ GetClientReturn(1)
    \/ RemoteCall(1, Responses, RemoteErrors)
    \/ Finish(1)

Spec == Init /\ [][Next]_vars

\* One call of generate_image_from_base64 at a time on one server, with every
\* base64 argument.
NextDecode ==
    \/ \E k \in KeyArgs : servers = <<>> /\ CallInit(1, k)
    \/ \E a \in ArgsOver(B64Args, {None}) : CallFromBase64(1, 1, a)
    \/ GetClientCheck(1)
    \/ GetClientConstruct(1, RemoteErrors)
    \/ GetClientReturn(1)
    \/ RemoteCall(1, ResponseSamples, RemoteErrors)
    \/ Finish(1)

SpecDecode == Init /\ [][NextDecode]_vars

\* Calls of generate_image by several tasks on one server, interleaved at
\* every step.
NextConc ==
    \E t \in Tasks :
      \/ \E k \in KeyArgs : servers = <<>> /\ CallInit(t, k)
      \/ CallGenerateImage(t, 1, PlainRequest)
      \/ GetClientCheck(t)
      \/ GetClientConstruct(t, {ConnectError})
      \/ GetClientReturn(t)
      \/ RemoteCall(t, {ImageResponse}, {ConnectError})
      \/ Finish(t)

SpecConc == Init /\ [][NextConc]_vars

(***************************************************************************)
(* Vocabulary of the properties.                                           *)
(***************************************************************************)
ResponseFields == {"success", "generated_image_data", "error_message", "model_used"}

\* The call of task record tk entered generate_image.
EnteredGenerate(tk) == tk.request # None

\* The call was made through generate_image_from_base64.
ThroughBase64(tk) ==
    tk.entry \in {"generate_image_from_base64", "generate_image_with_nano_banana"}

\* The remote side failed, or answered without an image.
RemoteFailed(tk) ==
    \/ tk.outcome \in {"client_raised", "remote_raised"}
    \/ tk.outcome = "response" /\ Get(tk.shape).kind # "image"

\* Well-formed base64 (RFC 4648): groups of four characters of the alphabet,
\* the last group ending in at most two pads.
WellFormedB64(s) ==
    /\ Len(s) % 4 = 0
    /\ \E p \in 0..2 :
         /\ p <= Len(s)
         /\ \A i \in 1..Len(s) :
              IF i > Len(s) - p THEN s[i] = "=" ELSE B64Value(s[i]) < 64

\* The messages of binascii.Error.
DecodeErrorTexts ==
    {"Incorrect padding"}
    \cup {"Invalid base64-encoded string: number of data characters (" \o ToString(n)
          \o ") cannot be 1 more than a multiple of 4" : n \in 0..(MaxB64Len + 1)}

\* The Client objects constructed in the process so far.
RECURSIVE SumConstructions(_)
SumConstructions(i) ==
    IF i = 0 THEN 0 ELSE servers[i].constructions + SumConstructions(i - 1)

ClientsConstructed == SumConstructions(Len(servers))

(***************************************************************************)
(* C1.  Whatever the request and whatever the remote side does (Client     *)
(* raising, generate_content raising, a response of any shape),            *)
(* generate_image returns an ImageGenerationResponse and no exception      *)
(* leaves it; every failure path ends in a response with success = false.  *)
(***************************************************************************)
C1_NeverRaises ==
    \A t \in Tasks :
      LET tk == tasks[t]
      IN  /\ tk.raisedIn # "generate_image"
          /\ EnteredGenerate(tk) =>
               /\ tk.pc \in {"get_client", "construct", "return_client", "remote", "done"}
               /\ tk.pc = "done" =>
                    /\ tk.result # None
                    /\ DOMAIN Get(tk.result) = ResponseFields
                    /\ Get(tk.result).success \in BOOLEAN
          /\ RemoteFailed(tk) =>
               /\ tk.pc = "done"
               /\ tk.result # None
               /\ Get(tk.result).success = FALSE

\* A response without candidates has been turned into a failed result.
C1_Witness ==
    \E t \in Tasks :
      /\ tasks[t].pc = "done"
      /\ tasks[t].outcome = "response"
      /\ tasks[t].shape # None
      /\ Get(tasks[t].shape).kind = "no_candidates"
      /\ tasks[t].result # None
      /\ Get(tasks[t].result).success = FALSE

(***************************************************************************)
(* C2.  Every ImageGenerationResponse that generate_image returns is       *)
(* either a success with non-empty image bytes and no error message, or a  *)
(* failure with no image bytes and a non-empty error message.              *)
(***************************************************************************)
C2_OneOfTwoShapes ==
    \A t \in Tasks :
      tasks[t].result # None =>
        LET r == Get(tasks[t].result)
        IN  \/ /\ r.success = TRUE
               /\ TruthySeq(r.generated_image_data)
               /\ r.error_message = None
            \/ /\ r.success = FALSE
               /\ r.generated_image_data = None
               /\ TruthyStr(r.error_message)

\* A failure whose exception has an empty text: the message is the prefix.
C2_Witness ==
    \E t \in Tasks :
      /\ tasks[t].outcome = "remote_raised"
      /\ tasks[t].result # None
      /\ Get(tasks[t].result).error_message = Some(FailedPrefix)

(***************************************************************************)
(* C3.  For every input_image_b64 that is not well-formed base64,          *)
(* generate_image_from_base64 returns a dict with success = false and an   *)
(* error that mentions the decoding failure, and the call makes no remote  *)
(* generate_content call and creates no client.                            *)
(***************************************************************************)
C3_MalformedRejected ==
    \A t \in Tasks :
      LET tk == tasks[t]
      IN  (/\ ThroughBase64(tk)
           /\ tk.args # None
           /\ Get(tk.args).input_image_b64 # None
           /\ ~WellFormedB64(Get(Get(tk.args).input_image_b64)))
          => /\ tk.remoteCalls = 0
             /\ tk.pc = "done" =>
                  /\ tk.dict # None
                  /\ Get(tk.dict).success = FALSE
                  /\ "error" \in DOMAIN Get(tk.dict)
                  /\ Get(tk.dict).error \in {Some(DecodePrefix \o m) : m \in DecodeErrorTexts}
                  /\ tk.constructed = 0
                  /\ tk.client = 0

(***************************************************************************)
(* C4.  When generate_content returns a response with zero candidates, or  *)
(* one whose first candidate has no part carrying inline image data,       *)
(* generate_image returns success = false with the "no image data"         *)
(* message, not a generic failure message.                                 *)
(***************************************************************************)
C4_NoImageMessage ==
    \A t \in Tasks :
      LET tk == tasks[t]
      IN  (/\ tk.outcome = "response"
           /\ Get(tk.shape).kind \in {"no_candidates", "no_image_part"})
          => /\ tk.pc = "done"
             /\ tk.result # None
             /\ Get(tk.result).success = FALSE
             /\ Get(tk.result).error_message = Some(NoImageMessage)

C6_DictShape ==
    \A t \in Tasks :
      tasks[t].dict # None =>
        LET d == Get(tasks[t].dict)
        IN  /\ {"success", "model_used"} \subseteq DOMAIN d
            /\ d.model_used = ModelName
            /\ d.success = TRUE =>
                 DOMAIN d = {"success", "model_used", "generated_image_b64",
                             "generated_image_size"}
            /\ d.success = FALSE =>
                 DOMAIN d = {"success", "model_used", "error"}

(***************************************************************************)
(* C7.  With no credential (the api_key argument None or empty and the     *)
(* environment variable unset or empty) the constructor raises: the caller *)
(* gets the ValueError and no server, no client and no remote call.        *)
(* Conversely the constructor raises only then, and every server object    *)
(* has a non-empty api_key, the argument's or the environment's.           *)
(***************************************************************************)
C7_CredentialRequired ==
    /\ \A s \in 1..Len(servers) :
         /\ servers[s].api_key # ""
         /\ \E k \in KeyArgs \cup {env} : TruthyStr(k) /\ servers[s].api_key = Get(k)
    /\ \A t \in Tasks :
         LET tk == tasks[t]
             available == TruthyStr(tk.key) \/ TruthyStr(env)
         IN  tk.entry \in {"__init__", "generate_image_with_nano_banana"} =>
               /\ ~available =>
                    /\ tk.pc = "raised"
                    /\ tk.exc = Some(KeyError)
                    /\ tk.server = 0
                    /\ tk.client = 0
                    /\ tk.constructed = 0
                    /\ tk.remoteCalls = 0
               /\ available => tk.raisedIn # "__init__" /\ tk.server # 0

\* A server exists, made with a key argument, and the tool function, which
\* passes none, has raised for want of the environment variable.
C7_Witness ==
    /\ Len(servers) >= 1
    /\ \E t \in Tasks :
         /\ tasks[t].pc = "raised"
         /\ tasks[t].entry = "generate_image_with_nano_banana"

(***************************************************************************)
(* C8.  Each call of generate_image issues at most one generate_content    *)
(* call and returns once; when that call raises, generate_image returns    *)
(* one failure and issues no second call.                                  *)
(***************************************************************************)
C8_NoRetry ==
    \A t \in Tasks :
      LET tk == tasks[t]
      IN  /\ tk.remoteCalls <= 1
          /\ tk.returns <= 1
          /\ (EnteredGenerate(tk) /\ tk.pc = "done") =>
               tk.returns = 1 /\ tk.result # None
          /\ tk.outcome = "remote_raised" =>
               /\ tk.pc = "done"
               /\ tk.remoteCalls = 1
               /\ tk.returns = 1
               /\ Get(tk.result).success = FALSE

\* A remote call has raised and the call has returned its failure.
C8_Witness ==
    \E t \in Tasks :
      /\ tasks[t].outcome = "remote_raised"
      /\ tasks[t].pc = "done"
      /\ tasks[t].remoteCalls = 1

(***************************************************************************)
(* C9, as claimed.  The contents sent are the prompt followed by exactly   *)
(* one image part iff input_image_data is present, an empty byte sequence  *)
(* included; the part's media type is the one supplied, or "image/png"     *)
(* when none or an empty one was supplied.                                 *)
(***************************************************************************)
C9_ImagePartIffPresent ==
    \A t \in Tasks :
      LET tk == tasks[t]
      IN  (tk.pc = "remote" \/ tk.remoteCalls > 0) =>
            LET q == Get(tk.request)
            IN  /\ Len(tk.contents) \in {1, 2}
                /\ tk.contents[1] = q.prompt
                /\ Len(tk.contents) = 2 <=> q.input_image_data # None
                /\ Len(tk.contents) = 2 =>
                     /\ tk.contents[2].data = Get(q.input_image_data)
                     /\ tk.contents[2].mime_type # ""
                     /\ tk.contents[2].mime_type =
                          IF q.input_image_mime_type \in {None, Some("")}
                            THEN "image/png" ELSE Get(q.input_image_mime_type)

(***************************************************************************)
(* C9, amended.  The contents sent are the prompt followed by exactly one  *)
(* image part iff input_image_data is present and not empty; the part's    *)
(* media type is the one supplied, or "image/png" when none or an empty    *)
(* one was supplied.                                                       *)
(***************************************************************************)
C9_ImagePartIffNonEmpty ==
    \A t \in Tasks :
      LET tk == tasks[t]
      IN  (tk.pc = "remote" \/ tk.remoteCalls > 0) =>
            LET q == Get(tk.request)
            IN  /\ Len(tk.contents) \in {1, 2}
                /\ tk.contents[1] = q.prompt
                /\ Len(tk.contents) = 2 <=>
                     (q.input_image_data # None /\ Get(q.input_image_data) # <<>>)
                /\ Len(tk.contents) = 2 =>
                     /\ tk.contents[2].data = Get(q.input_image_data)
                     /\ tk.contents[2].mime_type # ""
                     /\ tk.contents[2].mime_type =
                          IF q.input_image_mime_type \in {None, Some("")}
                            THEN "image/png" ELSE Get(q.input_image_mime_type)

\* An image decoded from base64 is about to be sent, its empty media type
\* replaced by the default.
C9_Witness ==
    \E t \in Tasks :
      /\ tasks[t].pc = "remote"
      /\ ThroughBase64(tasks[t])
      /\ Get(tasks[t].request).input_image_mime_type = Some("")
      /\ Len(tasks[t].contents) = 2
      /\ tasks[t].contents[2].mime_type = "image/png"

(***************************************************************************)
(* C10.  When calls of generate_image on one server run concurrently and   *)
(* race on the first use of _get_client, no call reaches the remote call   *)
(* with an absent Client; a Client may be constructed more than once, but  *)
(* self.client, once set, is never None again, and once no call is left    *)
(* that is about to construct, it keeps its value.                         *)
(***************************************************************************)
C10_HandleAtRemote ==
    /\ \A t \in Tasks :
         (tasks[t].pc = "remote" \/ tasks[t].remoteCalls > 0) => tasks[t].client # 0
    /\ \A s \in 1..Len(servers) :
         /\ servers[s].client # 0 <=> servers[s].constructions > 0
         /\ servers[s].constructions <= MaxTasks

C10_HandleStaysFixed ==
    \A s \in 1..Len(servers) :
      (/\ servers[s].client # 0
       /\ \A t \in Tasks : ~(tasks[t].pc = "construct" /\ tasks[t].server = s))
      => servers'[s].client = servers[s].client

\* C10: in every state a call at the remote call holds a Client and a set
\* self.client is never None again (C10_HandleAtRemote), and in every step
\* a set self.client that no call is about to overwrite keeps its value
\* (C10_HandleStaysFixed).
C10_RaceIsHarmless == [](C10_HandleAtRemote) /\ [][C10_HandleStaysFixed]_vars

\* Two calls have each constructed a Client for the same server, and one of
\* them is about to issue the remote call.
C10_Witness ==
    \E t \in Tasks :
      /\ tasks[t].pc = "remote"
      /\ tasks[t].client # 0
      /\ servers[tasks[t].server].constructions = 2

====
